---- MODULE Spec2Model ----
(***************************************************************************)
(* Model of vkb::core::Image (framework/core/image.cpp): the type          *)
(* inference helper find_image_type, the owning and the adopting           *)
(* constructor, move-construction, destruction and map/unmap, together     *)
(* with the allocator calls (vmaCreateImage, vmaDestroyImage, vmaMapMemory,*)
(* vmaUnmapMemory) and the ImageView::set_image calls each of them issues. *)
(* AFBCSample (samples/performance/afbc/afbc.cpp) is modelled on its own:   *)
(* prepare, update, recreate_swapchain and the GUI checkbox.                *)
(***************************************************************************)
EXTENDS Integers, Sequences, FiniteSets, TLC

(***************************************************************************)
(* Bounds of the model.                                                    *)
(***************************************************************************)
MaxFrames  == 6     \* AFBCSample::update calls in one run
MaxImages  == 3     \* Image objects that may come into existence in one run
MaxCtor    == 1     \* constructor calls (owning or adopting) in one run
MaxViews   == 2     \* ImageView objects
MaxSteps   == 5     \* operations other than destruction in one run
TypeMaxDim == 4     \* extent components given to find_image_type alone

(***************************************************************************)
(* Program constants.                                                      *)
(***************************************************************************)
VK_NULL_HANDLE == 0
nullptr        == 0

ImageIds == 1..MaxImages
ViewIds  == 1..MaxViews

Tilings      == {"VK_IMAGE_TILING_OPTIMAL", "VK_IMAGE_TILING_LINEAR"}
MemoryUsages == {"GPU_ONLY", "CPU_TO_GPU"}
VkResults    == {"VK_SUCCESS", "VK_ERROR_OUT_OF_DEVICE_MEMORY"}
MapResults   == {"VK_SUCCESS", "VK_ERROR_MEMORY_MAP_FAILED"}
SwapchainHandles == {50}         \* externally owned VkImage handles

\* Constructor arguments are drawn together with the extent: the two extents
\* that classify as nothing, and one each for 1D, 2D and 3D; format, sample
\* count, mip levels and array layers are only stored and copied.
CtorArgs == {
  [extent |-> <<0, 0, 0>>, format |-> "R8G8B8A8", sample_count |-> 1,
   mip_levels |-> 1, array_layers |-> 1, usage |-> {"COLOR_ATTACHMENT"}],
  [extent |-> <<0, 0, 1>>, format |-> "B8G8R8A8", sample_count |-> 4,
   mip_levels |-> 1, array_layers |-> 1,
   usage |-> {"COLOR_ATTACHMENT", "TRANSIENT_ATTACHMENT"}],
  [extent |-> <<4, 0, 0>>, format |-> "R8G8B8A8", sample_count |-> 1,
   mip_levels |-> 1, array_layers |-> 2, usage |-> {"COLOR_ATTACHMENT"}],
  [extent |-> <<4, 4, 1>>, format |-> "B8G8R8A8", sample_count |-> 4,
   mip_levels |-> 2, array_layers |-> 1,
   usage |-> {"COLOR_ATTACHMENT", "TRANSIENT_ATTACHMENT"}],
  [extent |-> <<4, 4, 2>>, format |-> "R8G8B8A8", sample_count |-> 4,
   mip_levels |-> 3, array_layers |-> 1, usage |-> {"SAMPLED"}]}

TypeExtents == {<<w, h, d>> : w \in 0..TypeMaxDim, h \in 0..TypeMaxDim,
                              d \in 0..TypeMaxDim}

VARIABLES
  img,         \* [ImageIds -> Image object]
  view_image,  \* [ViewIds -> the Image the view refers to, 0 before it exists]
  calls,       \* allocator / view calls issued by the last operation, in order
  lastOp,      \* the last operation: name, objects, arguments, outcome
  cnt,         \* per Image object: calls issued on its behalf so far
  lin,         \* per constructor call: create/destroy calls of its resource
  nextHandle,  \* allocator: number of images it has created
  nextPtr,     \* allocator: number of mappings it has handed out
  steps,       \* operations so far
  ext, ty,     \* find_image_type alone: its argument and its result
  \* AFBCSample (samples/performance/afbc/afbc.cpp)
  afbc_enabled,             \* the member the GUI checkbox edits
  afbc_enabled_last_value,  \* the value update() last acted on
  phase,                    \* "constructed", "prepared", or "failed" (prepare returned false)
  afbcOp,                   \* the last operation of the sample
  afbcCalls,                \* device / render-context calls it issued, in order
  swapchain_usage,          \* the flags last passed to update_swapchain
  last_at_prepare,          \* afbc_enabled_last_value when prepare() returned
  recreations,              \* recreate_swapchain() calls so far
  frames                    \* update() calls so far

imageVars == <<img, view_image, calls, lastOp, cnt, lin, nextHandle, nextPtr, steps, ext, ty>>
afbcVars  == <<afbc_enabled, afbc_enabled_last_value, phase, afbcOp, afbcCalls,
               swapchain_usage, last_at_prepare, recreations, frames>>
vars == <<imageVars, afbcVars>>

(***************************************************************************)
(* find_image_type                                                         *)
(***************************************************************************)
find_image_type_depth_ge1(extent) ==
  LET d1 == IF extent[1] >= 1 THEN 1 ELSE 0
      d2 == d1 + (IF extent[2] >= 1 THEN 1 ELSE 0)
      dim_num == d2 + (IF extent[3] >= 1 THEN 1 ELSE 0)
  IN  CASE dim_num = 1 -> "VK_IMAGE_TYPE_1D"
        [] dim_num = 2 -> "VK_IMAGE_TYPE_2D"
        [] dim_num = 3 -> "VK_IMAGE_TYPE_3D"
        [] OTHER       -> "throw"

find_image_type_height_gt1(extent) ==
  LET d1 == IF extent[1] >= 1 THEN 1 ELSE 0
      d2 == d1 + (IF extent[2] > 1 THEN 1 ELSE 0)
      dim_num == d2 + (IF extent[3] > 1 THEN 1 ELSE 0)
  IN  CASE dim_num = 1 -> "VK_IMAGE_TYPE_1D"
        [] dim_num = 2 -> "VK_IMAGE_TYPE_2D"
        [] dim_num = 3 -> "VK_IMAGE_TYPE_3D"
        [] OTHER       -> "throw"

find_image_type(extent) ==
  LET d1 == IF extent[1] >= 1 THEN 1 ELSE 0
      d2 == d1 + (IF extent[2] >= 1 THEN 1 ELSE 0)
      dim_num == d2 + (IF extent[3] > 1 THEN 1 ELSE 0)
  IN  CASE dim_num = 1 -> "VK_IMAGE_TYPE_1D"
        [] dim_num = 2 -> "VK_IMAGE_TYPE_2D"
        [] dim_num = 3 -> "VK_IMAGE_TYPE_3D"
        [] OTHER       -> "throw"      \* std::runtime_error("No image type found.")

(***************************************************************************)
(* Image objects                                                           *)
(***************************************************************************)
\* Member defaults for the members a constructor's initializer list omits.
ImageDefaults ==
  [handle |-> VK_NULL_HANDLE, memory |-> VK_NULL_HANDLE,
   type |-> "none", extent |-> <<0, 0, 0>>, format |-> "none",
   sample_count |-> 0, usage |-> {}, tiling |-> "VK_IMAGE_TILING_OPTIMAL",
   subresource |-> [mipLevel |-> 0, arrayLayer |-> 0],
   mapped_data |-> nullptr, mapped |-> FALSE, views |-> {}]

\* state: "none"      no constructor has run for this object
\*        "failed"    its constructor threw: no object exists
\*        "live"      constructed, not yet destroyed
\*        "destroyed" its destructor has run
NoImage == [state |-> "none"] @@ ImageDefaults

\* Per object: the allocator calls issued by its member functions, the map()
\* calls made while it was not mapped, the object its resource was first
\* constructed as, and whether it has been the source of a move.
NoCnt == [map_memory |-> 0, unmap_memory |-> 0, destroy_image |-> 0,
          map_calls_unmapped |-> 0, root |-> 0, moved |-> FALSE]
\* Per constructor call: which constructor, the extent it was given, the
\* create_image calls with the last status and the pair returned, and the
\* destroy_image calls with the pairs released, over all objects the
\* resource was moved through.
NoLin == [kind |-> "none", extent |-> <<0, 0, 0>>, status |-> "none",
          create_image |-> 0, destroy_image |-> 0,
          created |-> <<VK_NULL_HANDLE, VK_NULL_HANDLE>>, destroyed |-> {}]

NoErr == [what |-> "none", result |-> "VK_SUCCESS"]
Err(what, result) == [what |-> what, result |-> result]

Call(fn, handle, alloc, view, image, info) ==
  [fn |-> fn, handle |-> handle, alloc |-> alloc, view |-> view,
   image |-> image, info |-> info]

NoInfo == [usage |-> "none", preferredFlags |-> {}]

Op(name, target, other, extent, ret, err, status, warned) ==
  [name |-> name, target |-> target, other |-> other, extent |-> extent,
   ret |-> ret, err |-> err, status |-> status, warned |-> warned,
   usage |-> {}, memory_usage |-> "none"]

\* A call of the owning constructor, with the usage arguments it was given.
OwningOp(target, extent, image_usage, memory_usage, err, status) ==
  [Op("construct_owning", target, 0, extent, nullptr, err, status, FALSE)
     EXCEPT !.usage = image_usage, !.memory_usage = memory_usage]

NoExtent == <<0, 0, 0>>

\* The lowest object not yet used: objects come into existence in this order.
NextSlot == CHOOSE i \in ImageIds :
              /\ img[i].state = "none"
              /\ \A j \in ImageIds : j < i => img[j].state # "none"
HasSlot == \E i \in ImageIds : img[i].state = "none"
NumCtor == Cardinality({i \in ImageIds : lin[i].kind # "none"})

\* No AFBCSample exists.
AfbcNotRunning ==
  /\ afbc_enabled = FALSE
  /\ afbc_enabled_last_value = FALSE
  /\ phase = "none"
  /\ afbcOp = "none"
  /\ afbcCalls = <<>>
  /\ swapchain_usage = {}
  /\ last_at_prepare = "unset"
  /\ recreations = 0
  /\ frames = 0

Init ==
  /\ img = [i \in ImageIds |-> NoImage]
  /\ view_image = [v \in ViewIds |-> 0]
  /\ calls = <<>>
  /\ lastOp = Op("init", 0, 0, NoExtent, nullptr, NoErr, "VK_SUCCESS", FALSE)
  /\ cnt = [i \in ImageIds |-> NoCnt]
  /\ lin = [i \in ImageIds |-> NoLin]
  /\ nextHandle = 0
  /\ nextPtr = 0
  /\ steps = 0
  /\ ext = <<0, 0, 0>>
  /\ ty = "none"
  /\ AfbcNotRunning


(***************************************************************************)
(* Bookkeeping of the calls an operation issues                            *)
(***************************************************************************)
CountFn(cs, fn) == Cardinality({k \in DOMAIN cs : cs[k].fn = fn})

\* cnt after the operation on object i issued the calls cs.
Account(i, cs, mapWhileUnmapped) ==
  [cnt EXCEPT ![i].map_memory    = @ + CountFn(cs, "map_memory"),
              ![i].unmap_memory  = @ + CountFn(cs, "unmap_memory"),
              ![i].destroy_image = @ + CountFn(cs, "destroy_image"),
              ![i].map_calls_unmapped = @ + (IF mapWhileUnmapped THEN 1 ELSE 0)]

\* lin after object i (whose resource was constructed as object r) issued cs.
AccountLin(r, cs) ==
  [lin EXCEPT ![r].destroy_image = @ + CountFn(cs, "destroy_image"),
              ![r].destroyed = @ \cup {<<cs[k].handle, cs[k].alloc>> :
                                 k \in {n \in DOMAIN cs : cs[n].fn = "destroy_image"}}]

(***************************************************************************)
(* Image::Image (owning)                                                   *)
(***************************************************************************)
MemoryInfo_lazy_by_hint(image_usage, memory_usage) ==
  [usage |-> memory_usage,
   preferredFlags |-> IF memory_usage = "GPU_ONLY"
                      THEN {"LAZILY_ALLOCATED"} ELSE {}]

\* The VmaAllocationCreateInfo the constructor builds.
MemoryInfo(image_usage, memory_usage) ==
  [usage |-> memory_usage,
   preferredFlags |-> IF "TRANSIENT_ATTACHMENT" \in image_usage
                      THEN {"LAZILY_ALLOCATED"} ELSE {}]

CreateFailed_ignored(result) == FALSE

\* if (result != VK_SUCCESS) throw VulkanException{result, ...}
CreateFailed(result) == result # "VK_SUCCESS"

\* The type initializer of both constructors: find_image_type(extent) throws
\* from the initializer list, before the constructor body runs.
TypeInitThrows_never(extent) == FALSE

TypeInitThrows(extent) == find_image_type(extent) = "throw"

ConstructOwning(var, memory_usage, tiling, result) ==
  /\ steps < MaxSteps /\ HasSlot /\ NumCtor < MaxCtor
  /\ LET i    == NextSlot
         extent == var.extent
         image_usage == var.usage
         h    == nextHandle + 1          \* VkImage the allocator returns
         a    == nextHandle + 11         \* VmaAllocation the allocator returns
         create == Call("create_image", VK_NULL_HANDLE, VK_NULL_HANDLE, 0, i,
                        MemoryInfo(image_usage, memory_usage))
         obj  == [ImageDefaults EXCEPT
                    !.type = find_image_type(extent), !.extent = extent,
                    !.format = var.format, !.sample_count = var.sample_count,
                    !.usage = image_usage, !.tiling = tiling,
                    !.subresource = [mipLevel |-> var.mip_levels,
                                     arrayLayer |-> var.array_layers]]
     IN  IF TypeInitThrows(extent)
         THEN /\ img' = [img EXCEPT ![i].state = "failed"]
              /\ calls' = <<>>
              /\ lastOp' = OwningOp(i, extent, image_usage, memory_usage,
                              Err("runtime_error", "VK_SUCCESS"), "VK_SUCCESS")
              /\ lin' = [lin EXCEPT ![i].kind = "owning", ![i].extent = extent]
              /\ cnt' = [cnt EXCEPT ![i].root = i]
              /\ UNCHANGED nextHandle
         ELSE IF CreateFailed(result)
         THEN /\ img' = [img EXCEPT ![i].state = "failed"]
              /\ calls' = <<create>>
              /\ lastOp' = OwningOp(i, extent, image_usage, memory_usage,
                              Err("VulkanException", result), result)
              /\ lin' = [lin EXCEPT ![i].kind = "owning", ![i].extent = extent,
                           ![i].status = result, ![i].create_image = @ + 1]
              /\ cnt' = [cnt EXCEPT ![i].root = i]
              /\ UNCHANGED nextHandle
         ELSE \* the constructor returns: handle and memory are what
              \* vmaCreateImage wrote (nothing unless it succeeded)
              /\ img' = [img EXCEPT ![i] = [state |-> "live"] @@
                           (IF result = "VK_SUCCESS"
                            THEN [obj EXCEPT !.handle = h, !.memory = a]
                            ELSE obj)]
              /\ calls' = <<create>>
              /\ lastOp' = OwningOp(i, extent, image_usage, memory_usage,
                              NoErr, result)
              /\ lin' = [lin EXCEPT ![i].kind = "owning", ![i].extent = extent,
                           ![i].status = result, ![i].create_image = @ + 1,
                           ![i].created = IF result = "VK_SUCCESS" THEN <<h, a>> ELSE @]
              /\ cnt' = [cnt EXCEPT ![i].root = i]
              /\ nextHandle' = IF result = "VK_SUCCESS" THEN nextHandle + 1
                               ELSE nextHandle
  /\ steps' = steps + 1
  /\ UNCHANGED <<view_image, nextPtr, ext, ty, afbcVars>>

(***************************************************************************)
(* Image::Image (adopting)                                                 *)
(***************************************************************************)
ConstructAdopted(handle, var) ==
  /\ steps < MaxSteps /\ HasSlot /\ NumCtor < MaxCtor
  /\ LET i    == NextSlot
         extent == var.extent
         image_usage == var.usage
         obj  == [ImageDefaults EXCEPT
                    !.handle = handle,
                    !.type = find_image_type(extent), !.extent = extent,
                    !.format = var.format, !.sample_count = 1,
                    !.usage = image_usage,
                    !.subresource = [mipLevel |-> 1, arrayLayer |-> 1]]
     IN  IF TypeInitThrows(extent)
         THEN /\ img' = [img EXCEPT ![i].state = "failed"]
              /\ lastOp' = Op("construct_adopted", i, 0, extent, nullptr,
                              Err("runtime_error", "VK_SUCCESS"), "VK_SUCCESS", FALSE)
         ELSE /\ img' = [img EXCEPT ![i] = [state |-> "live"] @@ obj]
              /\ lastOp' = Op("construct_adopted", i, 0, extent, nullptr,
                              NoErr, "VK_SUCCESS", FALSE)
  /\ calls' = <<>>
  /\ lin' = [lin EXCEPT ![NextSlot].kind = "adopted", ![NextSlot].extent = var.extent]
  /\ cnt' = [cnt EXCEPT ![NextSlot].root = NextSlot]
  /\ steps' = steps + 1
  /\ UNCHANGED <<view_image, nextHandle, nextPtr, ext, ty, afbcVars>>


(***************************************************************************)
(* Image::Image(Image &&other)                                             *)
(***************************************************************************)
MoveInit_drop_mapping(other) ==
  [ImageDefaults EXCEPT
     !.handle = other.handle, !.memory = other.memory, !.type = other.type,
     !.extent = other.extent, !.format = other.format,
     !.sample_count = other.sample_count, !.usage = other.usage,
     !.tiling = other.tiling, !.subresource = other.subresource]

\* The initializer list: every member it names is taken from other; views is
\* not named, so the destination's view set is default-constructed.
MoveInit(other) ==
  [ImageDefaults EXCEPT
     !.handle = other.handle, !.memory = other.memory, !.type = other.type,
     !.extent = other.extent, !.format = other.format,
     !.sample_count = other.sample_count, !.usage = other.usage,
     !.tiling = other.tiling, !.subresource = other.subresource,
     !.mapped_data = other.mapped_data, !.mapped = other.mapped]

MovedFrom_keeps_flag(other) ==
  [other EXCEPT !.handle = VK_NULL_HANDLE, !.memory = VK_NULL_HANDLE,
                !.mapped_data = nullptr]

MovedFrom_keeps_resource(other) ==
  [other EXCEPT !.mapped_data = nullptr, !.mapped = FALSE]

\* The first four statements of the body: what is left of other.
MovedFrom(other) ==
  [other EXCEPT !.handle = VK_NULL_HANDLE, !.memory = VK_NULL_HANDLE,
                !.mapped_data = nullptr, !.mapped = FALSE]

\* for (auto &view : views) view->set_image(*this): one call per element of
\* the set iterated (an unordered_set: the calls are listed by view id).
RECURSIVE RebindCalls(_, _)
RebindCalls(vs, dst) ==
  IF vs = {} THEN <<>>
  ELSE LET v == CHOOSE x \in vs : \A y \in vs : x <= y
       IN  <<Call("set_image", VK_NULL_HANDLE, VK_NULL_HANDLE, v, dst, NoInfo)>>
             \o RebindCalls(vs \ {v}, dst)

MoveConstruct(src) ==
  /\ steps < MaxSteps /\ HasSlot
  /\ img[src].state = "live"
  /\ LET dst   == NextSlot
         other == img[src]
         this  == MoveInit(other)
         cs    == RebindCalls(this.views, dst)
     IN  /\ img' = [img EXCEPT ![dst] = [state |-> "live"] @@ this,
                               ![src] = MovedFrom(other)]
         /\ calls' = cs
         /\ view_image' = [v \in ViewIds |->
                             IF v \in this.views THEN dst ELSE view_image[v]]
         /\ lastOp' = Op("move", dst, src, NoExtent, nullptr, NoErr,
                         "VK_SUCCESS", FALSE)
         /\ cnt' = [cnt EXCEPT ![dst].root = cnt[src].root, ![src].moved = TRUE]
  /\ steps' = steps + 1
  /\ UNCHANGED <<lin, nextHandle, nextPtr, ext, ty, afbcVars>>

(***************************************************************************)
(* Image::map, Image::unmap                                                *)
(***************************************************************************)
MapNeeded_always(image) == TRUE

\* if (!mapped_data)
MapNeeded(image) == image.mapped_data = nullptr

MapWarns_never(image) == FALSE

\* if (tiling != VK_IMAGE_TILING_LINEAR) LOGW(...), inside if (!mapped_data)
MapWarns(image) == image.tiling # "VK_IMAGE_TILING_LINEAR"

\* vmaMapMemory may succeed with any host address or fail; VK_CHECK then
\* raises the error and map() does not reach `mapped = true`.  With a null
\* allocation (adopted or moved-from image) the call has no defined outcome:
\* the same two outcomes, or a crash, after which nothing more happens.
Map(i, result) ==
  /\ steps < MaxSteps
  /\ img[i].state = "live"
  /\ LET pre  == img[i]
         p    == nextPtr + 1         \* the address vmaMapMemory hands out
         warn == MapWarns(pre)
         cs   == <<Call("map_memory", VK_NULL_HANDLE, pre.memory, 0, i, NoInfo)>>
     IN  IF MapNeeded(pre)
         THEN /\ calls' = cs
              /\ cnt' = Account(i, cs, ~pre.mapped)
              /\ nextPtr' = IF result = "VK_SUCCESS" THEN nextPtr + 1 ELSE nextPtr
              /\ IF result = "VK_SUCCESS"
                 THEN /\ img' = [img EXCEPT ![i].mapped_data = p, ![i].mapped = TRUE]
                      /\ lastOp' = Op("map", i, 0, NoExtent, p, NoErr, result, warn)
                 ELSE /\ img' = img
                      /\ lastOp' = Op("map", i, 0, NoExtent, nullptr,
                                      Err("VK_CHECK", result), result, warn)
         ELSE /\ calls' = <<>>
              /\ cnt' = Account(i, <<>>, ~pre.mapped)
              /\ nextPtr' = nextPtr
              /\ img' = img
              /\ lastOp' = Op("map", i, 0, NoExtent, pre.mapped_data, NoErr,
                              "VK_SUCCESS", FALSE)
  /\ steps' = steps + 1
  /\ UNCHANGED <<view_image, lin, nextHandle, ext, ty, afbcVars>>

UnmapCalls_always(image) ==
  <<Call("unmap_memory", VK_NULL_HANDLE, image.memory, 0, 0, NoInfo)>>

\* The allocator calls of unmap(): vmaUnmapMemory if (mapped).
UnmapCalls(image) ==
  IF image.mapped
  THEN <<Call("unmap_memory", VK_NULL_HANDLE, image.memory, 0, 0, NoInfo)>>
  ELSE <<>>

\* The object after unmap().
Unmapped(image) ==
  IF image.mapped
  THEN [image EXCEPT !.mapped_data = nullptr, !.mapped = FALSE]
  ELSE image

Unmap(i) ==
  /\ steps < MaxSteps
  /\ img[i].state = "live"
  /\ LET pre == img[i]
         cs  == UnmapCalls(pre)
     IN  /\ img' = [img EXCEPT ![i] = Unmapped(pre)]
         /\ calls' = cs
         /\ cnt' = Account(i, cs, FALSE)
         /\ lastOp' = Op("unmap", i, 0, NoExtent, nullptr, NoErr, "VK_SUCCESS", FALSE)
  /\ steps' = steps + 1
  /\ UNCHANGED <<view_image, lin, nextHandle, nextPtr, ext, ty, afbcVars>>

(***************************************************************************)
(* Image::~Image                                                           *)
(***************************************************************************)
DestructorReleases_handle_only(image) == image.handle # VK_NULL_HANDLE

\* if (handle != VK_NULL_HANDLE && memory != VK_NULL_HANDLE)
DestructorReleases(image) ==
  image.handle # VK_NULL_HANDLE /\ image.memory # VK_NULL_HANDLE

DestructorCalls_destroy_first(image) ==
  IF DestructorReleases(image)
  THEN <<Call("destroy_image", image.handle, image.memory, 0, 0, NoInfo)>>
         \o UnmapCalls(image)
  ELSE <<>>

\* unmap(); vmaDestroyImage(allocator, handle, memory);
DestructorCalls(image) ==
  IF DestructorReleases(image)
  THEN UnmapCalls(image)
         \o <<Call("destroy_image", image.handle, image.memory, 0, 0, NoInfo)>>
  ELSE <<>>

Destroy(i) ==
  /\ img[i].state = "live"
  /\ LET pre  == img[i]
         cs   == DestructorCalls(pre)
         post == IF DestructorReleases(pre) THEN Unmapped(pre) ELSE pre
     IN  /\ img' = [img EXCEPT ![i] = [post EXCEPT !.state = "destroyed"]]
         /\ calls' = cs
         /\ cnt' = Account(i, cs, FALSE)
         /\ lin' = AccountLin(cnt[i].root, cs)
         /\ lastOp' = Op("destroy", i, 0, NoExtent, nullptr, NoErr, "VK_SUCCESS", FALSE)
  /\ UNCHANGED <<view_image, nextHandle, nextPtr, steps, ext, ty, afbcVars>>

(***************************************************************************)
(* ImageView: a view registers itself with the image it is created on      *)
(***************************************************************************)
RegisterView(v, i) ==
  /\ steps < MaxSteps
  /\ view_image[v] = 0
  /\ \A u \in ViewIds : u < v => view_image[u] # 0    \* views are created in order
  /\ img[i].state = "live"
  /\ img[i].handle # VK_NULL_HANDLE     \* a view is created on an image that holds a VkImage
  /\ img' = [img EXCEPT ![i].views = @ \cup {v}]
  /\ view_image' = [view_image EXCEPT ![v] = i]
  /\ calls' = <<>>
  /\ lastOp' = Op("register_view", i, v, NoExtent, nullptr, NoErr, "VK_SUCCESS", FALSE)
  /\ steps' = steps + 1
  /\ UNCHANGED <<cnt, lin, nextHandle, nextPtr, ext, ty, afbcVars>>

Next ==
  \/ \E var \in CtorArgs, m \in MemoryUsages, t \in Tilings, r \in VkResults :
        ConstructOwning(var, m, t, r)
  \/ \E h \in SwapchainHandles, var \in CtorArgs : ConstructAdopted(h, var)
  \/ \E src \in ImageIds : MoveConstruct(src)
  \/ \E i \in ImageIds, r \in MapResults : Map(i, r)
  \/ \E i \in ImageIds : Unmap(i)
  \/ \E i \in ImageIds : Destroy(i)
  \/ \E v \in ViewIds, i \in ImageIds : RegisterView(v, i)

Spec == Init /\ [][Next]_vars

(***************************************************************************)
(* find_image_type on its own: every extent of the range, then the call    *)
(***************************************************************************)
InitType ==
  /\ img = [i \in ImageIds |-> NoImage]
  /\ view_image = [v \in ViewIds |-> 0]
  /\ calls = <<>>
  /\ lastOp = Op("init", 0, 0, NoExtent, nullptr, NoErr, "VK_SUCCESS", FALSE)
  /\ cnt = [i \in ImageIds |-> NoCnt]
  /\ lin = [i \in ImageIds |-> NoLin]
  /\ nextHandle = 0
  /\ nextPtr = 0
  /\ steps = 0
  /\ ext \in TypeExtents
  /\ ty = "none"
  /\ AfbcNotRunning

FindImageType ==
  /\ ty = "none"
  /\ ty' = find_image_type(ext)
  /\ UNCHANGED <<img, view_image, calls, lastOp, cnt, lin, nextHandle, nextPtr, steps, ext, afbcVars>>

NextType == FindImageType

SpecType == InitType /\ [][NextType]_vars


(***************************************************************************)
(* AFBCSample: prepare, update, recreate_swapchain, draw_gui               *)
(***************************************************************************)
ImageUsageFlags_inverted(enabled) ==
  {"COLOR_ATTACHMENT"} \cup (IF enabled THEN {"STORAGE"} ELSE {})

\* The set recreate_swapchain() builds: the colour attachment bit, and the
\* storage bit if (!afbc_enabled).
ImageUsageFlags(enabled) ==
  {"COLOR_ATTACHMENT"} \cup (IF ~enabled THEN {"STORAGE"} ELSE {})

RecreateSwapchainCalls_update_first(enabled) ==
  << [fn |-> "update_swapchain", flags |-> ImageUsageFlags(enabled)],
     [fn |-> "wait_idle", flags |-> {}] >>

\* get_device().wait_idle(); get_render_context().update_swapchain(flags);
RecreateSwapchainCalls(enabled) ==
  << [fn |-> "wait_idle", flags |-> {}],
     [fn |-> "update_swapchain", flags |-> ImageUsageFlags(enabled)] >>

\* The flags of the last update_swapchain among the calls cs, else old.
LastSwapchainUsage(cs, old) ==
  LET ks == {k \in DOMAIN cs : cs[k].fn = "update_swapchain"}
  IN  IF ks = {} THEN old
      ELSE cs[CHOOSE k \in ks : \A j \in ks : j <= k].flags

\* The sample after its constructor; the two members' initial values are set
\* in the class definition, so both values of each are considered.
InitAfbc ==
  /\ img = [i \in ImageIds |-> NoImage]
  /\ view_image = [v \in ViewIds |-> 0]
  /\ calls = <<>>
  /\ lastOp = Op("init", 0, 0, NoExtent, nullptr, NoErr, "VK_SUCCESS", FALSE)
  /\ cnt = [i \in ImageIds |-> NoCnt]
  /\ lin = [i \in ImageIds |-> NoLin]
  /\ nextHandle = 0
  /\ nextPtr = 0
  /\ steps = 0
  /\ ext = <<0, 0, 0>>
  /\ ty = "none"
  /\ afbc_enabled \in BOOLEAN
  /\ afbc_enabled_last_value \in BOOLEAN
  /\ phase = "constructed"
  /\ afbcOp = "construct"
  /\ afbcCalls = <<>>
  /\ swapchain_usage = {}
  /\ last_at_prepare = "unset"
  /\ recreations = 0
  /\ frames = 0

\* AFBCSample::prepare; ok is what VulkanSample::prepare returns.
Prepare(ok) ==
  /\ phase = "constructed"
  /\ IF ~ok
     THEN /\ phase' = "failed"
          /\ afbcCalls' = <<>>
          /\ UNCHANGED <<afbc_enabled, swapchain_usage, last_at_prepare, recreations>>
     ELSE LET cs == RecreateSwapchainCalls(FALSE)
          IN  /\ phase' = "prepared"
              /\ afbc_enabled' = FALSE
              /\ afbcCalls' = cs
              /\ swapchain_usage' = LastSwapchainUsage(cs, swapchain_usage)
              /\ last_at_prepare' = IF afbc_enabled_last_value THEN "true" ELSE "false"
              /\ recreations' = recreations + 1
  /\ afbcOp' = "prepare"
  /\ UNCHANGED <<afbc_enabled_last_value, frames, imageVars>>

\* AFBCSample::update; VulkanSample::update is taken to leave the members alone.
Update ==
  /\ phase = "prepared"
  /\ frames < MaxFrames
  /\ IF afbc_enabled # afbc_enabled_last_value
     THEN LET cs == RecreateSwapchainCalls(afbc_enabled)
          IN  /\ afbcCalls' = cs
              /\ swapchain_usage' = LastSwapchainUsage(cs, swapchain_usage)
              /\ recreations' = recreations + 1
              /\ afbc_enabled_last_value' = afbc_enabled
     ELSE /\ afbcCalls' = <<>>
          /\ UNCHANGED <<swapchain_usage, recreations, afbc_enabled_last_value>>
  /\ afbcOp' = "update"
  /\ frames' = frames + 1
  /\ UNCHANGED <<afbc_enabled, phase, last_at_prepare, imageVars>>

\* ImGui::Checkbox("AFBC", &afbc_enabled) in draw_gui: the user clicks it.
GuiToggle ==
  /\ phase = "prepared"
  /\ afbc_enabled' = ~afbc_enabled
  /\ afbcOp' = "toggle"
  /\ afbcCalls' = <<>>
  /\ UNCHANGED <<afbc_enabled_last_value, phase, swapchain_usage, last_at_prepare,
                 recreations, frames, imageVars>>

NextAfbc ==
  \/ \E ok \in BOOLEAN : Prepare(ok)
  \/ Update
  \/ GuiToggle

SpecAfbc == InitAfbc /\ [][NextAfbc]_vars

(***************************************************************************)
(* Properties                                                              *)
(***************************************************************************)
MoveStep     == lastOp'.name = "move" /\ steps' = steps + 1
MapStep      == lastOp'.name = "map" /\ steps' = steps + 1
UnmapStep    == lastOp'.name = "unmap" /\ steps' = steps + 1
DestroyStep(o) == img[o].state = "live" /\ img'[o].state = "destroyed"

\* The objects the resource constructed as object r has been moved through.
Lineage(r) == {o \in ImageIds : img[o].state # "none" /\ cnt[o].root = r}
AllDestroyed(r) == \A o \in Lineage(r) : img[o].state = "destroyed"
Constructed(r) == img[r].state \in {"live", "destroyed"}
\* The constructor that built the resource object o holds or held.
KindOf(o) == IF o \in ImageIds /\ cnt[o].root # 0 THEN lin[cnt[o].root].kind ELSE "none"

SetImageCalls(cs, v, dst) ==
  Cardinality({k \in DOMAIN cs : /\ cs[k].fn = "set_image"
                                 /\ cs[k].view = v /\ cs[k].image = dst})

\* C1: when Image(Image &&other) returns, every view that was in other's view
\* set before the move has received set_image exactly once, with the
\* destination as argument.
C1_MoveRebindsViews ==
  [][MoveStep =>
       \A v \in img[lastOp'.other].views :
          /\ SetImageCalls(calls', v, lastOp'.target) = 1
          /\ Cardinality({k \in DOMAIN calls' : calls'[k].fn = "set_image"
                                               /\ calls'[k].view = v}) = 1]_vars

\* C2: for a successful owning construction, once every object the resource
\* was moved through is destroyed, one create_image and one destroy_image have
\* been issued, the destroy_image with the pair create_image returned; the
\* destructor of an object that was moved from issues no destroy_image.
C2_OneCreateOneDestroy ==
  /\ \A r \in ImageIds :
       (lin[r].kind = "owning" /\ Constructed(r) /\ AllDestroyed(r)) =>
          /\ lin[r].create_image = 1
          /\ lin[r].destroy_image = 1
          /\ lin[r].destroyed = {lin[r].created}
          /\ lin[r].created[1] # VK_NULL_HANDLE
          /\ lin[r].created[2] # VK_NULL_HANDLE
  /\ \A o \in ImageIds : cnt[o].moved => cnt[o].destroy_image = 0

C2_Witness ==
  \E r \in ImageIds :
     /\ lin[r].kind = "owning" /\ Constructed(r) /\ AllDestroyed(r)
     /\ Cardinality(Lineage(r)) = 3
     /\ \E o \in Lineage(r) : cnt[o].map_memory > 0
     /\ \E o \in Lineage(r) : cnt[o].unmap_memory > 0

\* C3: an image built by the adopting constructor never causes create_image,
\* and no destructor of an object it was moved through issues destroy_image.
C3_AdoptedNeverReleases ==
  /\ \A r \in ImageIds :
       lin[r].kind = "adopted" =>
          /\ lin[r].create_image = 0
          /\ lin[r].destroy_image = 0
          /\ \A o \in Lineage(r) : cnt[o].destroy_image = 0
  /\ (lastOp.name \in {"construct_adopted", "destroy"}
        /\ KindOf(lastOp.target) = "adopted") => calls = <<>>

C3_Witness ==
  \E r \in ImageIds :
     /\ lin[r].kind = "adopted" /\ Constructed(r) /\ AllDestroyed(r)
     /\ Cardinality(Lineage(r)) >= 2
     /\ \E o \in Lineage(r) : cnt[o].map_memory > 0

\* C4: move-construction leaves the source with null handle, null allocation,
\* null mapped_data and mapped = false, and gives the destination the handle,
\* allocation, mapped_data, mapped and descriptor fields of the source.
C4_MoveTransfersFields ==
  [][MoveStep =>
       LET src == lastOp'.other
           dst == lastOp'.target
       IN  /\ img'[src].handle = VK_NULL_HANDLE
           /\ img'[src].memory = VK_NULL_HANDLE
           /\ img'[src].mapped_data = nullptr
           /\ img'[src].mapped = FALSE
           /\ img'[dst].state = "live"
           /\ img'[dst].handle = img[src].handle
           /\ img'[dst].memory = img[src].memory
           /\ img'[dst].mapped_data = img[src].mapped_data
           /\ img'[dst].mapped = img[src].mapped
           /\ img'[dst].type = img[src].type
           /\ img'[dst].extent = img[src].extent
           /\ img'[dst].format = img[src].format
           /\ img'[dst].sample_count = img[src].sample_count
           /\ img'[dst].usage = img[src].usage
           /\ img'[dst].tiling = img[src].tiling
           /\ img'[dst].subresource = img[src].subresource]_vars

C4_Witness ==
  /\ lastOp.name = "move"
  /\ img[lastOp.target].mapped
  /\ img[lastOp.target].mapped_data # nullptr
  /\ img[lastOp.target].memory # VK_NULL_HANDLE
  /\ img[lastOp.target].tiling = "VK_IMAGE_TILING_LINEAR"
  /\ img[lastOp.other].handle = VK_NULL_HANDLE

\* C5: on an owning image, map() while mapped issues no map_memory and returns
\* the pointer the mapping map() returned; map() while not mapped issues one
\* map_memory; unmap() while mapped issues one unmap_memory.  Hence the
\* map_memory calls of an object number the map() calls made while it was not
\* mapped.
C5_MapIdempotent ==
  /\ [](\A o \in ImageIds :
          KindOf(o) = "owning" =>
             cnt[o].map_memory = cnt[o].map_calls_unmapped)
  /\ [][(MapStep /\ img[lastOp'.target].memory # VK_NULL_HANDLE) =>
          LET o == lastOp'.target
          IN  IF img[o].mapped
              THEN /\ calls' = <<>>
                   /\ lastOp'.ret = img[o].mapped_data
                   /\ lastOp'.ret # nullptr
                   /\ img'[o] = img[o]
              ELSE /\ CountFn(calls', "map_memory") = 1
                   /\ Len(calls') = 1
                   /\ calls'[1].alloc = img[o].memory
                   /\ lastOp'.err = NoErr =>
                        /\ img'[o].mapped
                        /\ lastOp'.ret = img'[o].mapped_data
                        /\ lastOp'.ret # nullptr]_vars
  /\ [][(UnmapStep /\ img[lastOp'.target].memory # VK_NULL_HANDLE) =>
          LET o == lastOp'.target
          IN  /\ CountFn(calls', "unmap_memory") = (IF img[o].mapped THEN 1 ELSE 0)
              /\ ~img'[o].mapped]_vars

\* map, unmap, map, unmap on one owning image: two map_memory, two unmap_memory.
C5_Witness ==
  \E o \in ImageIds :
     /\ img[o].memory # VK_NULL_HANDLE
     /\ cnt[o].map_calls_unmapped = 2
     /\ cnt[o].map_memory = 2 /\ cnt[o].unmap_memory = 2
     /\ lastOp.name = "unmap"

\* C6: the destructor of an owning image that is mapped issues unmap_memory
\* and then destroy_image, and nothing else; of one that is not mapped,
\* destroy_image alone.
C6_UnmapBeforeDestroy ==
  [][\A o \in ImageIds :
       (DestroyStep(o) /\ img[o].handle # VK_NULL_HANDLE
                       /\ img[o].memory # VK_NULL_HANDLE) =>
          IF img[o].mapped
          THEN /\ Len(calls') = 2
               /\ calls'[1].fn = "unmap_memory"
               /\ calls'[1].alloc = img[o].memory
               /\ calls'[2].fn = "destroy_image"
               /\ calls'[2].handle = img[o].handle
               /\ calls'[2].alloc = img[o].memory
          ELSE /\ Len(calls') = 1
               /\ calls'[1].fn = "destroy_image"
               /\ calls'[1].handle = img[o].handle
               /\ calls'[1].alloc = img[o].memory]_vars

C6_Witness ==
  /\ lastOp.name = "destroy"
  /\ Len(calls) = 2
  /\ calls[1].fn = "unmap_memory" /\ calls[2].fn = "destroy_image"


\* C7 as stated: (W,0,0) with W >= 1 is 1D; (W,H,1) with W,H >= 1 is 2D; every
\* (W,H,D) with D > 1 is 3D; (0,0,0) fails.
C7_AsStated ==
  ty # "none" =>
    /\ (ext[1] >= 1 /\ ext[2] = 0 /\ ext[3] = 0) => ty = "VK_IMAGE_TYPE_1D"
    /\ (ext[1] >= 1 /\ ext[2] >= 1 /\ ext[3] = 1) => ty = "VK_IMAGE_TYPE_2D"
    /\ ext[3] > 1 => ty = "VK_IMAGE_TYPE_3D"
    /\ ext = <<0, 0, 0>> => ty = "throw"

\* C7 amended: (W,0,0) with W >= 1 is 1D; (W,H,1) with W,H >= 1 is 2D; (W,H,D)
\* with W,H >= 1 and D > 1 is 3D; (0,0,0) fails.
C7_TypeInferenceCases ==
  ty # "none" =>
    /\ (ext[1] >= 1 /\ ext[2] = 0 /\ ext[3] = 0) => ty = "VK_IMAGE_TYPE_1D"
    /\ (ext[1] >= 1 /\ ext[2] >= 1 /\ ext[3] = 1) => ty = "VK_IMAGE_TYPE_2D"
    /\ (ext[1] >= 1 /\ ext[2] >= 1 /\ ext[3] > 1) => ty = "VK_IMAGE_TYPE_3D"
    /\ ext = <<0, 0, 0>> => ty = "throw"

C7_Witness ==
  /\ ty = "VK_IMAGE_TYPE_3D"
  /\ ext[1] >= 1 /\ ext[2] >= 1 /\ ext[3] > 1

\* The counting rule: the number of present dimensions of an extent.
PresentDimensions(e) ==
  Cardinality({k \in 1..2 : e[k] >= 1}) + Cardinality({k \in {3} : e[k] > 1})

\* C8: find_image_type is the counting rule: with n the number of present
\* dimensions (width >= 1, height >= 1, depth > 1) the result is 1D, 2D, 3D for
\* n = 1, 2, 3 and a failure for n = 0; (0,0,1) fails and depth 1 is never 3D.
C8_CountingRule ==
  ty # "none" =>
    LET n == PresentDimensions(ext)
    IN  /\ n = 0 <=> ty = "throw"
        /\ n = 1 <=> ty = "VK_IMAGE_TYPE_1D"
        /\ n = 2 <=> ty = "VK_IMAGE_TYPE_2D"
        /\ n = 3 <=> ty = "VK_IMAGE_TYPE_3D"
        /\ ext = <<0, 0, 1>> => ty = "throw"
        /\ ext[3] = 1 => ty # "VK_IMAGE_TYPE_3D"

C8_Witness ==
  /\ ty = "throw"
  /\ ext = <<0, 0, 1>>

\* C9: when create_image returns a status other than success, the owning
\* constructor throws VulkanException with that status, no object exists, and
\* no destroy_image, map_memory or unmap_memory is issued for it.
C9_AllocationFailed ==
  \A o \in ImageIds :
     (lin[o].kind = "owning" /\ lin[o].status \notin {"none", "VK_SUCCESS"}) =>
        /\ img[o].state = "failed"
        /\ lin[o].destroy_image = 0
        /\ cnt[o].destroy_image = 0
        /\ cnt[o].map_memory = 0
        /\ cnt[o].unmap_memory = 0
        /\ (lastOp.name = "construct_owning" /\ lastOp.target = o) =>
              /\ lastOp.err.what = "VulkanException"
              /\ lastOp.err.result = lin[o].status
              /\ CountFn(calls, "create_image") = 1 /\ Len(calls) = 1

C9_Witness ==
  /\ lastOp.name = "construct_owning"
  /\ lastOp.status = "VK_ERROR_OUT_OF_DEVICE_MEMORY"
  /\ lastOp.err.what = "VulkanException"
  /\ img[lastOp.target].state = "failed"

\* An extent that classifies as nothing: no width, no height, depth at most 1.
NoDimension(e) == e[1] = 0 /\ e[2] = 0 /\ e[3] <= 1

\* C10: either constructor, given an extent that classifies as nothing, throws
\* before any allocator call: no create_image is issued and no object exists.
C10_InvalidExtent ==
  \A o \in ImageIds :
     (lin[o].kind \in {"owning", "adopted"} /\ NoDimension(lin[o].extent)) =>
        /\ img[o].state = "failed"
        /\ lin[o].create_image = 0
        /\ (lastOp.name \in {"construct_owning", "construct_adopted"}
            /\ lastOp.target = o) =>
              /\ lastOp.err.what = "runtime_error"
              /\ calls = <<>>

C10_Witness ==
  /\ lastOp.name = "construct_owning"
  /\ lastOp.extent = <<0, 0, 1>>
  /\ lastOp.err.what = "runtime_error"
  /\ img[lastOp.target].state = "failed"


\* C11: the memory_info the owning constructor passes to create_image prefers
\* lazily allocated memory exactly if the usage flags include
\* TransientAttachment, and its usage hint is the caller's memory-usage hint.
C11_LazyIffTransient ==
  (lastOp.name = "construct_owning" /\ lastOp.err.what # "runtime_error") =>
     /\ Len(calls) = 1
     /\ calls[1].fn = "create_image"
     /\ ("LAZILY_ALLOCATED" \in calls[1].info.preferredFlags)
          <=> ("TRANSIENT_ATTACHMENT" \in lastOp.usage)
     /\ calls[1].info.usage = lastOp.memory_usage

C11_Witness ==
  /\ lastOp.name = "construct_owning"
  /\ "TRANSIENT_ATTACHMENT" \in lastOp.usage
  /\ lastOp.memory_usage = "CPU_TO_GPU"
  /\ Len(calls) = 1
  /\ calls[1].info.preferredFlags = {"LAZILY_ALLOCATED"}
  /\ img[lastOp.target].state = "live"


\* C12: in every state of every image object, mapped implies a non-null
\* allocation: an adopted or moved-from image is never mapped.
C12_MappedImpliesAllocation ==
  \A o \in ImageIds :
     (img[o].state \in {"live", "destroyed"} /\ img[o].mapped) =>
        img[o].memory # VK_NULL_HANDLE

\* C13: in every state of every image object, mapped is true exactly if
\* mapped_data is not null.
C13_MappedIffPointer ==
  \A o \in ImageIds :
     img[o].state \in {"live", "destroyed"} =>
        (img[o].mapped <=> img[o].mapped_data # nullptr)

\* An image mapped, moved, and unmapped through the destination.
C13_Witness ==
  /\ lastOp.name = "unmap"
  /\ cnt[lastOp.target].unmap_memory = 1
  /\ cnt[lastOp.target].map_memory = 0
  /\ \E src \in ImageIds : cnt[src].moved /\ cnt[src].map_memory = 1
  /\ ~img[lastOp.target].mapped


\* C14: move-construction transfers the view set: afterwards the destination's
\* view set is the set of views registered with the source before the move.
C14_MoveTransfersViews ==
  [][MoveStep => img'[lastOp'.target].views = img[lastOp'.other].views]_vars

\* C15: every view in an image's view set refers to that image, and no view
\* refers to an image that has been moved from.
C15_ViewsReferToOwner ==
  /\ \A i \in ImageIds : \A v \in img[i].views :
        img[i].state = "live" => view_image[v] = i
  /\ \A v \in ViewIds :
        view_image[v] # 0 => ~cnt[view_image[v]].moved


\* C16: unmap() on an image that is not mapped issues no call and changes
\* nothing; on a mapped image it issues one unmap_memory for the image's
\* allocation, clears mapped_data and mapped and leaves every other field.
C16_UnmapFrame ==
  [][UnmapStep =>
       LET o == lastOp'.target
       IN  /\ \A j \in ImageIds \ {o} : img'[j] = img[j]
           /\ view_image' = view_image
           /\ IF img[o].mapped
              THEN /\ Len(calls') = 1
                   /\ calls'[1].fn = "unmap_memory"
                   /\ calls'[1].alloc = img[o].memory
                   /\ img'[o] = [img[o] EXCEPT !.mapped_data = nullptr,
                                               !.mapped = FALSE]
              ELSE /\ calls' = <<>>
                   /\ img'[o] = img[o]]_vars

C16_Witness ==
  /\ lastOp.name = "unmap"
  /\ calls = <<>>
  /\ img[lastOp.target].memory # VK_NULL_HANDLE
  /\ img[lastOp.target].views # {}
  /\ cnt[lastOp.target].unmap_memory = 1

\* C17 as stated: map() on a linear image never warns; on a non-linear image
\* it warns and returns the pointer, and warns only on the first mapping of
\* the image: not on a repeated call, and not again after unmap and map.
C17_AsStated ==
  [][MapStep =>
       LET o      == lastOp'.target
           nonlin == img[o].tiling # "VK_IMAGE_TILING_LINEAR"
           first  == ~img[o].mapped /\ cnt[o].unmap_memory = 0
       IN  /\ ~nonlin => ~lastOp'.warned
           /\ nonlin => (lastOp'.warned <=> first)
           /\ (lastOp'.warned /\ lastOp'.err = NoErr) => lastOp'.ret # nullptr]_vars

\* C17 amended: map() on a linear image never warns; on a non-linear image it
\* warns on every call made while the image is not mapped, and returns the
\* pointer if the mapping succeeds; it does not warn on a repeated call while
\* mapped, and warns again after unmap and map.
C17_WarnsWhenMapping ==
  [][MapStep =>
       LET o      == lastOp'.target
           nonlin == img[o].tiling # "VK_IMAGE_TILING_LINEAR"
       IN  /\ ~nonlin => ~lastOp'.warned
           /\ nonlin => (lastOp'.warned <=> ~img[o].mapped)
           /\ (lastOp'.warned /\ lastOp'.err = NoErr) =>
                 /\ lastOp'.ret # nullptr
                 /\ lastOp'.ret = img'[o].mapped_data]_vars

\* The warning emitted a second time, after map, unmap, map.
C17_Witness ==
  /\ lastOp.name = "map"
  /\ lastOp.warned
  /\ lastOp.ret # nullptr
  /\ cnt[lastOp.target].unmap_memory = 1
  /\ cnt[lastOp.target].map_memory = 2


\* C18: every update_swapchain call of the AFBC sample is immediately preceded
\* by the wait_idle call of the same recreate_swapchain().
C18_WaitIdleBeforeUpdateSwapchain ==
  \A k \in DOMAIN afbcCalls :
     afbcCalls[k].fn = "update_swapchain" =>
        /\ k > 1
        /\ afbcCalls[k - 1].fn = "wait_idle"

\* A recreation caused by a toggle, after the one of prepare().
C18_Witness ==
  /\ afbcOp = "update"
  /\ recreations >= 2
  /\ Len(afbcCalls) = 2
  /\ afbcCalls[2].fn = "update_swapchain"

UpdateStep == frames' = frames + 1

\* C19: if afbc_enabled_last_value is false when prepare() returns, then after
\* prepare() and after every update() afbc_enabled_last_value equals
\* afbc_enabled and the flags last passed to update_swapchain hold the colour
\* attachment bit, and the storage bit exactly if afbc_enabled is false;
\* update() recreates the swapchain exactly if the two members differ at entry.
C19_LastValueTracksEnabled ==
  /\ []((last_at_prepare = "false" /\ afbcOp \in {"prepare", "update"}) =>
          /\ afbc_enabled_last_value = afbc_enabled
          /\ "COLOR_ATTACHMENT" \in swapchain_usage
          /\ ("STORAGE" \in swapchain_usage) <=> ~afbc_enabled)
  /\ [][UpdateStep =>
          /\ (afbc_enabled # afbc_enabled_last_value)
               <=> (\E k \in DOMAIN afbcCalls' : afbcCalls'[k].fn = "update_swapchain")
          /\ (afbc_enabled # afbc_enabled_last_value)
               <=> (recreations' = recreations + 1)
          /\ recreations' \in {recreations, recreations + 1}]_vars

\* AFBC switched on by the GUI and picked up by update().
C19_Witness ==
  /\ afbcOp = "update"
  /\ last_at_prepare = "false"
  /\ afbc_enabled
  /\ afbc_enabled_last_value
  /\ swapchain_usage = {"COLOR_ATTACHMENT"}
  /\ recreations = 2

====
